---- MODULE Spec2Model ----
(***************************************************************************)
(* Model of vregex: a recursive-descent parser for a small regex dialect,  *)
(* a Thompson-style builder that grows an NFA held in an arena of states,  *)
(* and the subset simulation that answers membership queries.              *)
(*                                                                         *)
(* Strings are sequences of one-character strings.  State ids are the      *)
(* 0-based indices of the source; states[id] is the (id+1)-th element of   *)
(* the TLA+ sequence.                                                      *)
(***************************************************************************)
EXTENDS Integers, Sequences, FiniteSets, TLC

VARIABLES pattern, automaton, build_result, pc, input, pos, result,
          stale, sm, sm_call, ast, tasks, cl

vars == <<pattern, automaton, build_result, pc, input, pos, result,
          stale, sm, sm_call, ast, tasks, cl>>

(***************************************************************************)
(* Bounds of the model.                                                    *)
(***************************************************************************)
MaxPatLen == 3
MaxStrLen == 2
MaxCompLen == 4
MaxSmStates == 3
MaxSmEdges == 2

\* states of the epsilon graphs the closure is run on
MaxClStates == 2

(***************************************************************************)
(* Alphabets.                                                              *)
(***************************************************************************)
\* the range 'a'..='z' accepted by literal
Letters ==
  {"a","b","c","d","e","f","g","h","i","j","k","l","m",
   "n","o","p","q","r","s","t","u","v","w","x","y","z"}

\* characters the enumerated patterns are made of
PatSyms == {"a", "b", "+", "*", "(", ")"}

\* labels used on the free-standing transition graph
SmSyms == {"a", "b"}

RECURSIVE SeqsOfLen(_, _)
SeqsOfLen(S, n) ==
  IF n = 0 THEN {<<>>}
  ELSE {Append(q, x) : q \in SeqsOfLen(S, n - 1), x \in S}

SeqsUpTo(S, n) == UNION {SeqsOfLen(S, k) : k \in 0..n}

Range(q) == {q[i] : i \in 1..Len(q)}

Last(q) == q[Len(q)]

Front(q) == SubSeq(q, 1, Len(q) - 1)

\* the orders a HashSet may be iterated in: every sequence that holds each
\* element of S once
Orders(S) == {q \in SeqsOfLen(S, Cardinality(S)) : Range(q) = S}

RECURSIVE SetToSeq(_)
\* one of the orders of S, for a loop whose result is the same in every
\* order
SetToSeq(S) ==
  IF S = {} THEN <<>>
  ELSE LET x == CHOOSE y \in S : TRUE IN <<x>> \o SetToSeq(S \ {x})

(***************************************************************************)
(* Regex AST  (regex_parsing.rs, enum Regex)                               *)
(***************************************************************************)
Literal(c) == [type |-> "Literal", c |-> c]

Concat(l, r) == [type |-> "Concat", l |-> l, r |-> r]

Plus(l, r) == [type |-> "Plus", l |-> l, r |-> r]

Star(e) == [type |-> "Star", e |-> e]

(***************************************************************************)
(* Parser.  Every parser maps the remaining input to a record              *)
(*   [ok, node, rest]                                                      *)
(* where rest is the position the input reference is left at, also on      *)
(* failure (winnow parsers advance a &mut &str).                           *)
(***************************************************************************)
NoNode == [type |-> "None"]

POk(node, rest) == [ok |-> TRUE, node |-> node, rest |-> rest]

PErr(rest) == [ok |-> FALSE, node |-> NoNode, rest |-> rest]

\* a char used as a parser: consumes exactly that char, else fails in place
char_tag(ch, inp) ==
  IF inp # <<>> /\ Head(inp) = ch THEN POk(ch, Tail(inp)) ELSE PErr(inp)

\* one_of('a'..='z').map(Regex::Literal): on a mismatch the input is reset
literal(inp) ==
  IF inp # <<>> /\ Head(inp) \in Letters
  THEN POk(Literal(Head(inp)), Tail(inp))
  ELSE PErr(inp)

RECURSIVE expr(_), plus(_), plus_loop(_, _), concat(_), concat_collect(_, _),
          star(_), star_loop(_, _), atom(_), delimited_expr(_)

\* delimited('(', expr, ')') once expr has run: the closing ')'
delimited_close(e) ==
  IF ~e.ok THEN PErr(e.rest)
  ELSE IF ~char_tag(")", e.rest).ok THEN PErr(e.rest)
  ELSE POk(e.node, char_tag(")", e.rest).rest)

\* delimited('(', expr, ')'): no reset of the input on failure
delimited_expr(inp) ==
  IF ~char_tag("(", inp).ok THEN PErr(inp)
  ELSE delimited_close(expr(char_tag("(", inp).rest))

\* alt, second alternative: the input is reset to the start before literal
\* is tried
atom_alt(first, inp) == IF first.ok THEN first ELSE literal(inp)

\* alt((delimited('(', expr, ')'), literal))
atom(inp) == atom_alt(delimited_expr(inp), inp)

\* while opt('*') matches, wrap the node in one more Star
star_loop(node, inp) ==
  IF char_tag("*", inp).ok
  THEN star_loop(Star(node), char_tag("*", inp).rest)
  ELSE POk(node, inp)

\* star after `let mut node = atom.parse_next(input)?`
star_node(a) == IF ~a.ok THEN a ELSE star_loop(a.node, a.rest)

star(inp) == star_node(atom(inp))

\* one turn of `while let Ok(next) = star.parse_next(input)`, next given
concat_push(nodes, next) ==
  IF next.ok THEN concat_collect(Append(nodes, next.node), next.rest)
  ELSE [nodes |-> nodes, rest |-> next.rest]

\* nodes.push(star.parse_next(input)?) and the while let loop after it:
\* the nodes collected until star fails, and where the input is left
concat_collect(nodes, inp) == concat_push(nodes, star(inp))

RECURSIVE concat_fold_right(_, _)
\* the fold nesting to the right: Concat(n0, Concat(n1, ...))
concat_fold_right(acc, nodes) ==
  IF nodes = <<>> THEN acc
  ELSE Concat(acc, concat_fold_right(Head(nodes), Tail(nodes)))

RECURSIVE concat_fold(_, _)
\* result = nodes[0]; for n in rest { result = Concat(result, n) }
concat_fold(acc, nodes) ==
  IF nodes = <<>> THEN acc
  ELSE concat_fold(Concat(acc, Head(nodes)), Tail(nodes))

\* concat with the nodes collected: no node at all is the `?` on the first
\* star
concat_nodes(coll) ==
  IF coll.nodes = <<>> THEN PErr(coll.rest)
  ELSE POk(concat_fold(Head(coll.nodes), Tail(coll.nodes)), coll.rest)

concat(inp) == concat_nodes(concat_collect(<<>>, inp))

\* plus after opt('+') matched: right = concat?; left = Plus(left, right)
plus_right(left, right) ==
  IF ~right.ok THEN PErr(right.rest)
  ELSE plus_loop(Plus(left, right.node), right.rest)

\* while opt('+').parse_next(input)?.is_some()
plus_loop(left, inp) ==
  IF ~char_tag("+", inp).ok THEN POk(left, inp)
  ELSE plus_right(left, concat(char_tag("+", inp).rest))

\* plus: `let mut left = concat.parse_next(input)?` is the collection of
\* the first operand, then the loop over '+'
plus_first(left) == IF ~left.ok THEN left ELSE plus_loop(left.node, left.rest)

plus(inp) == plus_first(concat(inp))

expr(inp) == plus(inp)

\* expr.parse_next(&mut s): whatever is left of s is dropped
parse_result(r) == [ok |-> r.ok, node |-> r.node]

parse_regex(inp) == parse_result(expr(inp))

(***************************************************************************)
(* Transition graph  (automaton/state_machine.rs)                          *)
(* A machine is [states |-> sequence of State]; a State is                 *)
(* [transitions |-> function from the symbols present as keys to sets of   *)
(* ids, eps_transitions |-> set of ids].                                   *)
(***************************************************************************)
State_new == [transitions |-> <<>>, eps_transitions |-> {}]

\* entry(v).or_insert_with(HashSet::new).insert(to)
State_add_transition(st, to, v) ==
  [st EXCEPT !.transitions =
     [k \in (DOMAIN st.transitions) \cup {v} |->
        IF k = v
        THEN (IF v \in DOMAIN st.transitions THEN st.transitions[v] ELSE {}) \cup {to}
        ELSE st.transitions[k]]]

State_add_eps_transition(st, to) ==
  [st EXCEPT !.eps_transitions = @ \cup {to}]

\* transitions.get(v): the successor set, or nothing when the key is absent
State_get(st, v) ==
  IF v \in DOMAIN st.transitions THEN st.transitions[v] ELSE {}

StateMachine_new == [states |-> <<>>]

StateMachine_nb_state(m) == Len(m.states)

is_valid_state_id(m, state_id) == state_id < StateMachine_nb_state(m)

\* push a fresh state; the id returned is nb_state() - 1 after the push
\* add_state returning the number of states after the push
StateMachine_add_state_len(m) ==
  LET m2 == [m EXCEPT !.states = Append(@, State_new)] IN
  [m |-> m2, id |-> StateMachine_nb_state(m2)]

StateMachine_add_state(m) ==
  LET m2 == [m EXCEPT !.states = Append(@, State_new)] IN
  [m |-> m2, id |-> StateMachine_nb_state(m2) - 1]

RECURSIVE StateMachine_add_n_state_loop(_, _, _)
StateMachine_add_n_state_loop(m, n, added) ==
  IF n = 0 THEN [m |-> m, ids |-> added]
  ELSE LET r == StateMachine_add_state(m) IN
       StateMachine_add_n_state_loop(r.m, n - 1, Append(added, r.id))

StateMachine_add_n_state(m, n) == StateMachine_add_n_state_loop(m, n, <<>>)

SmOk == <<"Ok">>

InvalidStateId(id) == <<"InvalidStateId", id>>

\* add_transition without the range check of `to`
StateMachine_add_transition_unchecked_to(m, from, to, v) ==
  IF ~is_valid_state_id(m, from) THEN [res |-> InvalidStateId(from), m |-> m]
  ELSE [res |-> SmOk,
        m |-> [m EXCEPT !.states[from + 1] = State_add_transition(@, to, v)]]

StateMachine_add_transition(m, from, to, v) ==
  IF ~is_valid_state_id(m, from) THEN [res |-> InvalidStateId(from), m |-> m]
  ELSE IF ~is_valid_state_id(m, to) THEN [res |-> InvalidStateId(to), m |-> m]
  ELSE [res |-> SmOk,
        m |-> [m EXCEPT !.states[from + 1] = State_add_transition(@, to, v)]]

\* add_eps_transition without the check of `to`
StateMachine_add_eps_transition_unchecked_to(m, from, to) ==
  IF ~is_valid_state_id(m, from) THEN [res |-> InvalidStateId(from), m |-> m]
  ELSE [res |-> SmOk,
        m |-> [m EXCEPT !.states[from + 1] = State_add_eps_transition(@, to)]]

StateMachine_add_eps_transition(m, from, to) ==
  IF ~is_valid_state_id(m, from) THEN [res |-> InvalidStateId(from), m |-> m]
  ELSE IF ~is_valid_state_id(m, to) THEN [res |-> InvalidStateId(to), m |-> m]
  ELSE [res |-> SmOk,
        m |-> [m EXCEPT !.states[from + 1] = State_add_eps_transition(@, to)]]

RECURSIVE apply_eps_loop(_, _, _)
\* while let Some(st) = stack.pop() { if reachable.insert(st) { stack.extend(eps) } }
\* as one call.  The set returned does not depend on the order extend
\* pushes the successors in (ClStep takes every order, one turn at a time);
\* the call is computed with one of them.
apply_eps_loop(m, stack, reachable) ==
  IF stack = <<>> THEN reachable
  ELSE LET st == Last(stack)
           rest == Front(stack)
       IN IF st \in reachable THEN apply_eps_loop(m, rest, reachable)
          ELSE apply_eps_loop(m,
                              rest \o SetToSeq(m.states[st + 1].eps_transitions),
                              reachable \cup {st})

\* apply_eps_transition following one epsilon transition only
apply_eps_transition_one_hop(m, from) ==
  {from} \cup m.states[from + 1].eps_transitions

apply_eps_transition(m, from) == apply_eps_loop(m, <<from>>, {})

\* apply_transition returning after_symbol without closing it
apply_transition_no_close(m, from, v) ==
  LET start == apply_eps_transition(m, from)
  IN UNION {State_get(m.states[st + 1], v) : st \in start}

\* apply_transition reading the transitions of `from` alone
apply_transition_from_only(m, from, v) ==
  LET after_symbol == State_get(m.states[from + 1], v)
  IN UNION {apply_eps_transition(m, st) : st \in after_symbol}

apply_transition(m, from, v) ==
  LET start == apply_eps_transition(m, from)
      after_symbol == UNION {State_get(m.states[st + 1], v) : st \in start}
  IN UNION {apply_eps_transition(m, st) : st \in after_symbol}

(***************************************************************************)
(* Automaton  (automaton.rs)                                               *)
(***************************************************************************)
Automaton_new ==
  [nb_state |-> 0, entry |-> {}, exit |-> {}, current_states |-> {},
   machine |-> StateMachine_new]

AOk(a) == [ok |-> TRUE, a |-> a]

AErr(a) == [ok |-> FALSE, a |-> a]

Automaton_add_state(a) ==
  LET r == StateMachine_add_state(a.machine) IN
  [a |-> [a EXCEPT !.nb_state = @ + 1, !.machine = r.m], id |-> r.id]

Automaton_add_n_state(a, n) ==
  LET r == StateMachine_add_n_state(a.machine, n) IN
  [a |-> [a EXCEPT !.nb_state = @ + n, !.machine = r.m], ids |-> r.ids]

add_entry(a, i) ==
  IF ~is_valid_state_id(a.machine, i) THEN AErr(a)
  ELSE AOk([a EXCEPT !.entry = @ \cup {i}])

reset_entry(a) == [a EXCEPT !.entry = {}]

get_entry(a) == a.entry

add_exit(a, i) ==
  IF ~is_valid_state_id(a.machine, i) THEN AErr(a)
  ELSE AOk([a EXCEPT !.exit = @ \cup {i}])

get_exit(a) == a.exit

reset_exit(a) == [a EXCEPT !.exit = {}]

Automaton_add_transition(a, from, to, v) ==
  LET r == StateMachine_add_transition(a.machine, from, to, v) IN
  IF r.res # SmOk THEN AErr(a) ELSE AOk([a EXCEPT !.machine = r.m])

Automaton_add_eps_transition(a, from, to) ==
  LET r == StateMachine_add_eps_transition(a.machine, from, to) IN
  IF r.res # SmOk THEN AErr(a) ELSE AOk([a EXCEPT !.machine = r.m])

\* init_for_read inserting the entries into the set left by the last query
\* init_for_read copying the active set into the entry frontier
init_for_read_reversed(a) == [a EXCEPT !.entry = a.current_states]

init_for_read_keep(a) == [a EXCEPT !.current_states = @ \cup a.entry]

init_for_read(a) == [a EXCEPT !.current_states = a.entry]

\* read starting again from the entry frontier when no state is active
read_restart(a, v) ==
  [a EXCEPT !.current_states =
     UNION {apply_transition(a.machine, st, v) :
              st \in IF a.current_states = {} THEN a.entry
                     ELSE a.current_states}]

read(a, v) ==
  [a EXCEPT !.current_states =
     UNION {apply_transition(a.machine, st, v) : st \in a.current_states}]

read_empty(a) ==
  [a EXCEPT !.current_states =
     UNION {apply_eps_transition(a.machine, st) : st \in a.current_states}]

\* on_exit asking that every active state is an exit
on_exit_all_exits(a) == a.current_states \subseteq a.exit

on_exit(a) == (a.current_states \cap a.exit) # {}

(***************************************************************************)
(* Builder  (vregex.rs).  A result is [ok, a]: ok is FALSE when a call     *)
(* returned an error and `?` left the rule early, a is the automaton as    *)
(* it is then.  The rules loop over HashSets, whose iteration order is     *)
(* not fixed: a rule gives the set of the results it can end with, one     *)
(* for each order (they differ only when a loop stops at an error).        *)
(***************************************************************************)
RECURSIVE add_eps_each(_, _)
\* a loop of add_eps_transition(from, to)? over the pairs of a sequence
add_eps_each(a, pairs) ==
  IF pairs = <<>> THEN AOk(a)
  ELSE LET r == Automaton_add_eps_transition(a, Head(pairs)[1], Head(pairs)[2]) IN
       IF ~r.ok THEN r ELSE add_eps_each(r.a, Tail(pairs))

RECURSIVE add_entry_each(_, _)
\* a loop of add_entry(id)? over the ids of a sequence
add_entry_each(a, ids) ==
  IF ids = <<>> THEN AOk(a)
  ELSE LET r == add_entry(a, Head(ids)) IN
       IF ~r.ok THEN r ELSE add_entry_each(r.a, Tail(ids))

\* the pairs (x, q[1]), (x, q[2]), ...
PairsFrom(x, q) == [i \in 1..Len(q) |-> <<x, q[i]>>]

\* the pairs (q[1], y), (q[2], y), ...
PairsTo(q, y) == [i \in 1..Len(q) |-> <<q[i], y>>]

RECURSIVE NestedOrders(_, _)
\* for x in outer { for y in inner.iter() { (x, y) } }: the sequences of
\* pairs the two loops can visit, outer taken in the order qo and inner
\* iterated anew, in any order, for each x
NestedOrders(qo, inner) ==
  IF qo = <<>> THEN {<<>>}
  ELSE {PairsFrom(Head(qo), qi) \o rest :
          qi \in Orders(inner), rest \in NestedOrders(Tail(qo), inner)}

\* build_literal marking state_added[0] as the exit
build_literal_exit_on_entry(a, c) ==
  LET r0 == Automaton_add_n_state(a, 2)
      state_added == r0.ids
      r1 == add_entry(r0.a, state_added[1])
  IN IF ~r1.ok THEN {r1}
     ELSE LET r2 == add_exit(r1.a, state_added[1]) IN
          IF ~r2.ok THEN {r2}
          ELSE {Automaton_add_transition(r2.a, state_added[1], state_added[2], c)}

build_literal(a, c) ==
  LET nb_added == 2
      r0 == Automaton_add_n_state(a, nb_added)
      state_added == r0.ids
      r1 == add_entry(r0.a, state_added[1])
  IN IF ~r1.ok THEN {r1}
     ELSE LET r2 == add_exit(r1.a, state_added[2]) IN
          IF ~r2.ok THEN {r2}
          ELSE {Automaton_add_transition(r2.a, state_added[1], state_added[2], c)}

\* build_concat, lines 102-105, after the loops of lines 97-101 ended with
\* r1: reset_entry, then add_entry(id)? over old_entries in the order ids
build_concat_entries(r1, ids) ==
  IF ~r1.ok THEN r1 ELSE add_entry_each(reset_entry(r1.a), ids)

\* the same without the reset_entry
build_concat_entries_kept(r1, ids) ==
  IF ~r1.ok THEN r1 ELSE add_entry_each(r1.a, ids)

\* build_concat without the reset_entry before the old entries are restored
build_concat_keep_entries(a, old_entries, old_exit) ==
  {build_concat_entries_kept(add_eps_each(a, pairs), ids) :
     pairs \in UNION {NestedOrders(qo, get_entry(a)) : qo \in Orders(old_exit)},
     ids \in Orders(old_entries)}

build_concat(a, old_entries, old_exit) ==
  {build_concat_entries(add_eps_each(a, pairs), ids) :
     pairs \in UNION {NestedOrders(qo, get_entry(a)) : qo \in Orders(old_exit)},
     ids \in Orders(old_entries)}

\* build_plus reading the entries after it has reset them
build_plus_lost_entries(a) ==
  LET r0 == Automaton_add_state(reset_entry(a))
      old_entries == get_entry(reset_entry(a))
      new_entry == r0.id
      r1 == add_entry(r0.a, new_entry)
  IN IF ~r1.ok THEN {r1}
     ELSE {add_eps_each(r1.a, PairsFrom(new_entry, q)) : q \in Orders(old_entries)}

\* build_plus taking the next id as new_entry without adding the state
build_plus_unallocated(a) ==
  LET old_entries == get_entry(a)
      new_entry == a.nb_state
      r1 == add_entry(reset_entry(a), new_entry)
  IN IF ~r1.ok THEN {r1}
     ELSE {add_eps_each(r1.a, PairsFrom(new_entry, q)) : q \in Orders(old_entries)}

build_plus(a) ==
  LET old_entries == get_entry(a)
      r0 == Automaton_add_state(reset_entry(a))
      new_entry == r0.id
      r1 == add_entry(r0.a, new_entry)
  IN IF ~r1.ok THEN {r1}
     ELSE {add_eps_each(r1.a, PairsFrom(new_entry, q)) : q \in Orders(old_entries)}

\* build_star, lines 134-136, after the loop of lines 131-133 ended with r5:
\* add_eps_transition(o_exit, new_exit)? over old_exits in the order q
build_star_exits(r5, q, new_exit) ==
  IF ~r5.ok THEN r5 ELSE add_eps_each(r5.a, PairsTo(q, new_exit))

\* build_star, lines 129-136: the transitions between new_entry and
\* new_exit (links), then the two loops in each order
build_star_links(r3, links, new_entry, new_exit, old_entries, old_exits) ==
  LET r4 == add_eps_each(r3.a, links) IN
  IF ~r4.ok THEN {r4}
  ELSE {build_star_exits(add_eps_each(r4.a, PairsFrom(new_entry, q1)),
                         q2, new_exit) :
          q1 \in Orders(old_entries), q2 \in Orders(old_exits)}

\* build_star without the new_entry -> new_exit transition
build_star_no_skip(a) ==
  LET old_entries == get_entry(a)
      old_exits == get_exit(a)
      r0 == Automaton_add_state(reset_exit(reset_entry(a)))
      new_entry == r0.id
      r1 == Automaton_add_state(r0.a)
      new_exit == r1.id
      r2 == add_entry(r1.a, new_entry)
  IN IF ~r2.ok THEN {r2}
     ELSE LET r3 == add_exit(r2.a, new_exit) IN
          IF ~r3.ok THEN {r3}
          ELSE build_star_links(r3, <<<<new_exit, new_entry>>>>,
                                new_entry, new_exit, old_entries, old_exits)

build_star(a) ==
  LET old_entries == get_entry(a)
      old_exits == get_exit(a)
      r0 == Automaton_add_state(reset_exit(reset_entry(a)))
      new_entry == r0.id
      r1 == Automaton_add_state(r0.a)
      new_exit == r1.id
      r2 == add_entry(r1.a, new_entry)
  IN IF ~r2.ok THEN {r2}
     ELSE LET r3 == add_exit(r2.a, new_exit) IN
          IF ~r3.ok THEN {r3}
          ELSE build_star_links(r3, <<<<new_entry, new_exit>>,
                                      <<new_exit, new_entry>>>>,
                                new_entry, new_exit, old_entries, old_exits)

RECURSIVE build_automaton(_, _)
\* the results build_automaton can end with; an Err of an operand or of a
\* rule is returned as it is (`?`)
build_automaton(a, reg) ==
  CASE reg.type = "Literal" -> build_literal(a, reg.c)
    [] reg.type = "Concat" ->
         UNION { IF ~l.ok THEN {l}
                 ELSE UNION { IF ~r.ok THEN {r}
                              ELSE build_concat(r.a, get_entry(l.a),
                                                get_exit(l.a)) :
                              r \in build_automaton(
                                      reset_exit(reset_entry(l.a)), reg.r) } :
                 l \in build_automaton(a, reg.l) }
    [] reg.type = "Plus" ->
         UNION { IF ~l.ok THEN {l}
                 ELSE UNION { IF ~r.ok THEN {r} ELSE build_plus(r.a) :
                              r \in build_automaton(l.a, reg.r) } :
                 l \in build_automaton(a, reg.l) }
    [] reg.type = "Star" ->
         UNION { IF ~e.ok THEN {e} ELSE build_star(e.a) :
                 e \in build_automaton(a, reg.e) }

\* Vregex::build: the Results it can return, each with the automaton it
\* leaves behind
Vregex_build(a, s) ==
  LET reg == parse_regex(s) IN
  IF ~reg.ok THEN {[res |-> "ParsingError", a |-> a]}
  ELSE {[res |-> IF b.ok THEN "Ok" ELSE "InternalFailure", a |-> b.a] :
          b \in build_automaton(a, reg.node)}

\* Vregex::new: `let _ = out.build(regex); out`: the engines it can return
Vregex_new(regex) == {b.a : b \in Vregex_build(Automaton_new, regex)}

RECURSIVE read_all(_, _)
\* for c in s.chars() { automaton.read(&c) }
read_all(a, s) ==
  IF s = <<>> THEN a ELSE read_all(read(a, Head(s)), Tail(s))

\* Vregex::validate as one call: the value returned and the automaton after
validate(a, s) ==
  LET a1 == init_for_read(a)
      a2 == IF s = <<>> THEN read_empty(a1) ELSE a1
      a3 == read_all(a2, s)
  IN [ret |-> on_exit(a3), a |-> a3]

(***************************************************************************)
(* The engine as a state machine.  The state after construction is         *)
(* Vregex::new(pattern); a query is validate(input) taken one call of the  *)
(* automaton at a time:                                                    *)
(*   idle --InitForRead--> empty --ReadEmpty--> loop     (input empty)     *)
(*   idle --InitForRead--> loop                          (otherwise)       *)
(*   loop --Read--> loop,  loop --OnExit--> done --Return--> idle          *)
(* build_result is the value of build() that new() drops; stale tells      *)
(* that the running query found in the engine an active set left by an     *)
(* earlier query (neither empty nor the entry frontier) and overwrote it.  *)
(* ast is the Regex build() got from parse_regex; tasks is the call stack   *)
(* of build_automaton while the automaton is built step by step.           *)
(***************************************************************************)
\* patterns longer than MaxPatLen, or with a character outside PatSyms
ExtraPatterns ==
  { <<"a", "+", "b", "c">>, <<"a", "+", "b", "*">>, <<"1">>, <<"a", "1">>,
    <<"a", "+", "b", "c", "*">>, <<"a", "b", "c">>,
    <<"a", "+", "b", "+", "c">> }

Patterns == SeqsUpTo(PatSyms, MaxPatLen) \cup ExtraPatterns

\* letters of the query strings
InSyms == {"a", "b", "c"}

Inputs == SeqsUpTo(InSyms, MaxStrLen)

CompositePattern ==
  <<"(", "(", "a", "b", ")", "+", "c", ")", "*", "(", "z", "+", "x", ")", "*">>

CompSyms == {"a", "b", "c", "x", "z", "r"}

CompInputs == SeqsUpTo(CompSyms, MaxCompLen)

NoCall == [op |-> "none"]

\* no epsilon closure is being computed step by step
ClIdle == [pc |-> "idle"]

InitEngine(p) ==
  /\ pattern = p
  /\ \E b \in Vregex_build(Automaton_new, p) :
       /\ automaton = b.a
       /\ build_result = b.res
  /\ pc = "idle"
  /\ input = <<>>
  /\ pos = 0
  /\ result = FALSE
  /\ stale = FALSE
  /\ sm = StateMachine_new
  /\ sm_call = NoCall
  /\ ast = parse_regex(p).node
  /\ tasks = <<>>
  /\ cl = ClIdle

Init == \E p \in Patterns : InitEngine(p)

InitComposite == InitEngine(CompositePattern)

\* validate, line 39: self.automaton.init_for_read()
InitForRead(s) ==
  /\ pc = "idle"
  /\ automaton' = init_for_read(automaton)
  /\ input' = s
  /\ pos' = 0
  /\ pc' = IF s = <<>> THEN "empty" ELSE "loop"
  /\ stale' = (automaton.current_states \notin {{}, automaton.entry})
  /\ UNCHANGED <<pattern, build_result, result, sm, sm_call, ast, tasks, cl>>

\* validate, lines 40-42: if s.is_empty() { self.automaton.read_empty() }
ReadEmpty ==
  /\ pc = "empty"
  /\ automaton' = read_empty(automaton)
  /\ pc' = "loop"
  /\ UNCHANGED <<pattern, build_result, input, pos, result, stale, sm, sm_call, ast, tasks, cl>>

\* validate, lines 43-45: one turn of the loop over s.chars()
Read ==
  /\ pc = "loop"
  /\ pos < Len(input)
  /\ automaton' = read(automaton, input[pos + 1])
  /\ pos' = pos + 1
  /\ UNCHANGED <<pattern, build_result, pc, input, result, stale, sm, sm_call, ast, tasks, cl>>

\* validate, line 46: the value returned is self.automaton.on_exit()
OnExit ==
  /\ pc = "loop"
  /\ pos = Len(input)
  /\ result' = on_exit(automaton)
  /\ pc' = "done"
  /\ UNCHANGED <<pattern, automaton, build_result, input, pos, stale,
                 sm, sm_call, ast, tasks, cl>>

\* the caller takes the result; the engine keeps its automaton as it is
Return ==
  /\ pc = "done"
  /\ pc' = "idle"
  /\ input' = <<>>
  /\ pos' = 0
  /\ result' = FALSE
  /\ stale' = FALSE
  /\ UNCHANGED <<pattern, automaton, build_result, sm, sm_call, ast, tasks, cl>>

Next ==
  \/ \E s \in Inputs : InitForRead(s)
  \/ ReadEmpty
  \/ Read
  \/ OnExit
  \/ Return

Spec == Init /\ [][Next]_vars

NextComposite ==
  \/ \E s \in CompInputs : InitForRead(s)
  \/ ReadEmpty
  \/ Read
  \/ OnExit
  \/ Return

SpecComposite == InitComposite /\ [][NextComposite]_vars

(***************************************************************************)
(* The transition graph on its own: a StateMachine<char> driven through    *)
(* its public mutators with arbitrary ids, valid or not.  sm_call records  *)
(* the last call and the value it returned.                                *)
(***************************************************************************)
SmIds == 0..MaxSmStates

SmEdgeCount(m) ==
  LET EdgesOf(st) ==
        Cardinality(st.eps_transitions)
        + Cardinality({<<v, t>> \in SmSyms \X SmIds : t \in State_get(st, v)})
      RECURSIVE Sum(_)
      Sum(q) == IF q = <<>> THEN 0 ELSE EdgesOf(Head(q)) + Sum(Tail(q))
  IN Sum(m.states)

EngineIdle ==
  UNCHANGED <<pattern, automaton, build_result, pc, input, pos, result,
              stale, ast, tasks, cl>>

InitGraph ==
  /\ pattern = <<>>
  /\ automaton = Automaton_new
  /\ build_result = "none"
  /\ pc = "graph"
  /\ input = <<>>
  /\ pos = 0
  /\ result = FALSE
  /\ stale = FALSE
  /\ sm = StateMachine_new
  /\ sm_call = NoCall
  /\ ast = NoNode
  /\ tasks = <<>>
  /\ cl = ClIdle

SmAddState ==
  /\ StateMachine_nb_state(sm) < MaxSmStates
  /\ LET r == StateMachine_add_state(sm) IN
       /\ sm' = r.m
       /\ sm_call' = [op |-> "add_state", ret |-> r.id]
  /\ EngineIdle

SmAddNState(n) ==
  /\ StateMachine_nb_state(sm) + n <= MaxSmStates
  /\ LET r == StateMachine_add_n_state(sm, n) IN
       /\ sm' = r.m
       /\ sm_call' = [op |-> "add_n_state", n |-> n, ret |-> r.ids]
  /\ EngineIdle

SmAddTransition(from, to, v) ==
  /\ SmEdgeCount(sm) < MaxSmEdges
  /\ LET r == StateMachine_add_transition(sm, from, to, v) IN
       /\ sm' = r.m
       /\ sm_call' = [op |-> "add_transition", from |-> from, to |-> to,
                      v |-> v, ret |-> r.res]
  /\ EngineIdle

SmAddEpsTransition(from, to) ==
  /\ SmEdgeCount(sm) < MaxSmEdges
  /\ LET r == StateMachine_add_eps_transition(sm, from, to) IN
       /\ sm' = r.m
       /\ sm_call' = [op |-> "add_eps_transition", from |-> from, to |-> to,
                      ret |-> r.res]
  /\ EngineIdle

NextGraph ==
  \/ SmAddState
  \/ \E n \in 0..MaxSmStates : SmAddNState(n)
  \/ \E from \in SmIds, to \in SmIds, v \in SmSyms : SmAddTransition(from, to, v)
  \/ \E from \in SmIds, to \in SmIds : SmAddEpsTransition(from, to)

SpecGraph == InitGraph /\ [][NextGraph]_vars

(***************************************************************************)
(* apply_eps_transition one turn of its loop at a time, on a graph drawn   *)
(* from the graphs of the compiled patterns and from every epsilon graph   *)
(* of up to MaxClStates states.  cl holds the locals of the call: the      *)
(* stack, the reachable set, and the states whose successors were pushed   *)
(* (expanded), in order.  Iterating a HashSet gives its elements in an     *)
(* unspecified order: every order is taken.                                *)
(***************************************************************************)
EpsGraphs ==
  UNION { { [states |-> f] :
              f \in [1..n -> {[transitions |-> <<>>, eps_transitions |-> E] :
                                E \in SUBSET (0..(n - 1))}] } :
          n \in 0..MaxClStates }

PatternGraphs == UNION {{a.machine : a \in Vregex_new(p)} : p \in Patterns}

\* one turn of the loop without the `if reachable.insert(st)` guard
apply_eps_pop_unguarded(m, stack, reachable, order) ==
  [stack |-> Front(stack) \o order,
   reachable |-> reachable \cup {Last(stack)},
   inserted |-> TRUE]

\* while let Some(st) = stack.pop() { if reachable.insert(st) { extend } }:
\* one turn, `order` being the order the epsilon successors are pushed in
apply_eps_pop(m, stack, reachable, order) ==
  IF Last(stack) \in reachable
  THEN [stack |-> Front(stack), reachable |-> reachable, inserted |-> FALSE]
  ELSE [stack |-> Front(stack) \o order,
        reachable |-> reachable \cup {Last(stack)},
        inserted |-> TRUE]

ClFrame ==
  UNCHANGED <<pattern, automaton, build_result, pc, input, pos, result,
              stale, sm, sm_call, ast, tasks>>

InitClosure ==
  /\ pattern = <<>>
  /\ automaton = Automaton_new
  /\ build_result = "none"
  /\ pc = "closure"
  /\ input = <<>>
  /\ pos = 0
  /\ result = FALSE
  /\ stale = FALSE
  /\ sm \in EpsGraphs \cup PatternGraphs
  /\ sm_call = NoCall
  /\ ast = NoNode
  /\ tasks = <<>>
  /\ cl = ClIdle

\* let mut reachable = HashSet::new(); let mut stack = vec![from];
ClStart(from) ==
  /\ cl.pc = "idle"
  /\ is_valid_state_id(sm, from)
  /\ cl' = [pc |-> "run", from |-> from, stack |-> <<from>>,
            reachable |-> {}, expanded |-> <<>>]
  /\ ClFrame

\* one turn of the while let loop
ClStep ==
  /\ cl.pc = "run"
  /\ cl.stack # <<>>
  /\ \E order \in Orders(sm.states[Last(cl.stack) + 1].eps_transitions) :
       LET r == apply_eps_pop(sm, cl.stack, cl.reachable, order) IN
       cl' = [cl EXCEPT !.stack = r.stack,
                        !.reachable = r.reachable,
                        !.expanded = IF r.inserted
                                     THEN Append(@, Last(cl.stack)) ELSE @]
  /\ ClFrame

\* stack.pop() gives None: the loop ends and reachable is returned
ClReturn ==
  /\ cl.pc = "run"
  /\ cl.stack = <<>>
  /\ cl' = [cl EXCEPT !.pc = "done"]
  /\ ClFrame

\* a whole call of apply_eps_transition(from)
ClApplyEps(from) ==
  /\ cl.pc = "idle"
  /\ is_valid_state_id(sm, from)
  /\ cl' = [pc |-> "ret", op |-> "apply_eps_transition", from |-> from,
            ret |-> apply_eps_transition(sm, from)]
  /\ ClFrame

\* a whole call of apply_transition(from, v)
ClApply(from, v) ==
  /\ cl.pc = "idle"
  /\ is_valid_state_id(sm, from)
  /\ cl' = [pc |-> "ret", op |-> "apply_transition", from |-> from,
            v |-> v, ret |-> apply_transition(sm, from, v)]
  /\ ClFrame

NextClosure ==
  \/ \E from \in 0..(StateMachine_nb_state(sm) - 1) : ClStart(from)
  \/ ClStep
  \/ ClReturn
  \/ \E from \in 0..(StateMachine_nb_state(sm) - 1) : ClApplyEps(from)
  \/ \E from \in 0..(StateMachine_nb_state(sm) - 1), v \in InSyms :
       ClApply(from, v)

\* the call is sequential code: a turn that can be taken is taken
SpecClosure ==
  InitClosure /\ [][NextClosure]_vars /\ WF_vars(ClStep) /\ WF_vars(ClReturn)

(***************************************************************************)
(* Vregex::new one call of build_automaton and one build rule at a time.   *)
(* tasks is the call stack of build_automaton, innermost call first: what  *)
(* is left to do of each arm that has been entered.  The frame of a Plus   *)
(* arm also keeps the node and the number of states there were when the    *)
(* arm was entered (the code keeps neither).  When the build has ended     *)
(* the engine answers queries as in Spec.                                  *)
(***************************************************************************)
BuildPatterns == Patterns \cup {CompositePattern}

BuildFrame(reg) == [op |-> "build", reg |-> reg]

BuildIdle == UNCHANGED <<pattern, input, pos, result, stale, sm, sm_call, cl>>

InitBuild ==
  /\ pattern \in BuildPatterns
  /\ automaton = Automaton_new
  /\ build_result = "none"
  /\ pc = "new"
  /\ input = <<>>
  /\ pos = 0
  /\ result = FALSE
  /\ stale = FALSE
  /\ sm = StateMachine_new
  /\ sm_call = NoCall
  /\ ast = NoNode
  /\ tasks = <<>>
  /\ cl = ClIdle

\* build, line 50: parse_regex(s)?; new drops the error and returns
BuildParse ==
  /\ pc = "new"
  /\ LET reg == parse_regex(pattern) IN
       /\ ast' = reg.node
       /\ IF reg.ok
          THEN /\ tasks' = <<BuildFrame(reg.node)>>
               /\ pc' = "build"
               /\ UNCHANGED build_result
          ELSE /\ tasks' = <<>>
               /\ pc' = "idle"
               /\ build_result' = "ParsingError"
  /\ UNCHANGED automaton
  /\ BuildIdle

\* the `?` after a build rule: Ok goes on with the rest of the stack, Err
\* is handed up through every caller and dropped by new
BuildSettle(r) ==
  /\ automaton' = r.a
  /\ IF r.ok
     THEN /\ tasks' = Tail(tasks)
          /\ UNCHANGED <<pc, build_result>>
     ELSE /\ tasks' = <<>>
          /\ pc' = "idle"
          /\ build_result' = "InternalFailure"
  /\ UNCHANGED ast
  /\ BuildIdle

BuildAt(op) == pc = "build" /\ tasks # <<>> /\ Head(tasks).op = op

BuildAtNode(type) == BuildAt("build") /\ Head(tasks).reg.type = type

\* Literal(char) => build_literal(autom, char)?
BuildLiteral ==
  /\ BuildAtNode("Literal")
  /\ \E r \in build_literal(automaton, Head(tasks).reg.c) : BuildSettle(r)

\* Concat arm, line 64: build_automaton(autom, *left_ex)? is called
BuildConcat ==
  /\ BuildAtNode("Concat")
  /\ tasks' = <<BuildFrame(Head(tasks).reg.l),
                [op |-> "concat_save", reg |-> Head(tasks).reg.r]>>
              \o Tail(tasks)
  /\ UNCHANGED <<automaton, pc, build_result, ast>>
  /\ BuildIdle

\* Concat arm, lines 65-69: the frontiers of the left operand are saved and
\* reset, and build_automaton(autom, *right_ex)? is called
BuildConcatSave ==
  /\ BuildAt("concat_save")
  /\ automaton' = reset_exit(reset_entry(automaton))
  /\ tasks' = <<BuildFrame(Head(tasks).reg),
                [op |-> "concat_end", old_entries |-> get_entry(automaton),
                 old_exits |-> get_exit(automaton)]>>
              \o Tail(tasks)
  /\ UNCHANGED <<pc, build_result, ast>>
  /\ BuildIdle

\* Concat arm, line 70: build_concat(autom, &old_entries, &old_exits)?
BuildConcatEnd ==
  /\ BuildAt("concat_end")
  /\ \E r \in build_concat(automaton, Head(tasks).old_entries,
                          Head(tasks).old_exits) : BuildSettle(r)

\* Plus arm, lines 74-75: both operands are built one after the other
BuildPlus ==
  /\ BuildAtNode("Plus")
  /\ tasks' = <<BuildFrame(Head(tasks).reg.l),
                BuildFrame(Head(tasks).reg.r),
                [op |-> "plus_end", reg |-> Head(tasks).reg,
                 base |-> automaton.nb_state]>>
              \o Tail(tasks)
  /\ UNCHANGED <<automaton, pc, build_result, ast>>
  /\ BuildIdle

\* Plus arm, line 76: build_plus(autom)?
BuildPlusEnd ==
  /\ BuildAt("plus_end")
  /\ \E r \in build_plus(automaton) : BuildSettle(r)

\* Star arm, line 80: build_automaton(autom, *ex)? is called
BuildStar ==
  /\ BuildAtNode("Star")
  /\ tasks' = <<BuildFrame(Head(tasks).reg.e), [op |-> "star_end"]>>
              \o Tail(tasks)
  /\ UNCHANGED <<automaton, pc, build_result, ast>>
  /\ BuildIdle

\* Star arm, line 81: build_star(autom)?
BuildStarEnd ==
  /\ BuildAt("star_end")
  /\ \E r \in build_star(automaton) : BuildSettle(r)

\* the outermost build_automaton returned Ok(()): build returns Ok(())
BuildDone ==
  /\ pc = "build"
  /\ tasks = <<>>
  /\ build_result' = "Ok"
  /\ pc' = "idle"
  /\ UNCHANGED <<automaton, ast, tasks>>
  /\ BuildIdle

NextBuild ==
  \/ BuildParse
  \/ BuildLiteral
  \/ BuildConcat
  \/ BuildConcatSave
  \/ BuildConcatEnd
  \/ BuildPlus
  \/ BuildPlusEnd
  \/ BuildStar
  \/ BuildStarEnd
  \/ BuildDone
  \/ Next

SpecBuild == InitBuild /\ [][NextBuild]_vars

\* the engine and the graph operations called with any ids, side by side
InitAll == InitBuild \/ InitGraph

NextAll ==
  \/ NextBuild
  \/ pc = "graph" /\ NextGraph

SpecAll == InitAll /\ [][NextAll]_vars

(***************************************************************************)
(* Reference definitions the claims are stated against: the grammar of     *)
(* the dialect as a recogniser on pattern strings, the regular language a  *)
(* pattern denotes, and the epsilon closure as a least fixpoint.           *)
(*   expr := concatenation ('+' concatenation)*                            *)
(*   concatenation := repetition repetition*                               *)
(*   repetition := atom ('*')*                                             *)
(*   atom := '(' expr ')' | 'a'..'z'                                       *)
(***************************************************************************)
Prefix(q, k) == SubSeq(q, 1, k)

Suffix(q, k) == SubSeq(q, k + 1, Len(q))

RECURSIVE GExpr(_), GConcat(_), GRep(_), GAtom(_)

GAtom(p) ==
  \/ Len(p) = 1 /\ p[1] \in Letters
  \/ Len(p) >= 3 /\ p[1] = "(" /\ Last(p) = ")" /\ GExpr(SubSeq(p, 2, Len(p) - 1))

GRep(p) ==
  \/ GAtom(p)
  \/ Len(p) >= 2 /\ Last(p) = "*" /\ GRep(Front(p))

GConcat(p) ==
  \/ GRep(p)
  \/ \E i \in 1..(Len(p) - 1) : GConcat(Prefix(p, i)) /\ GRep(Suffix(p, i))

GExpr(p) ==
  \/ GConcat(p)
  \/ \E i \in 2..(Len(p) - 1) :
       p[i] = "+" /\ GExpr(Prefix(p, i - 1)) /\ GConcat(Suffix(p, i))

RECURSIVE LExpr(_, _), LConcat(_, _), LRep(_, _), LAtom(_, _)

\* s is in the language of the atom p
LAtom(p, s) ==
  \/ Len(p) = 1 /\ p[1] \in Letters /\ s = p
  \/ Len(p) >= 3 /\ p[1] = "(" /\ Last(p) = ")"
       /\ GExpr(SubSeq(p, 2, Len(p) - 1)) /\ LExpr(SubSeq(p, 2, Len(p) - 1), s)

\* s is in the language of the repetition p: q* is zero or more words of q
LRep(p, s) ==
  \/ GAtom(p) /\ LAtom(p, s)
  \/ Len(p) >= 2 /\ Last(p) = "*" /\ GRep(Front(p))
       /\ (\/ s = <<>>
           \/ \E k \in 1..Len(s) : LRep(Front(p), Prefix(s, k)) /\ LRep(p, Suffix(s, k)))

\* s is in the language of the concatenation p
LConcat(p, s) ==
  \/ GRep(p) /\ LRep(p, s)
  \/ \E i \in 1..(Len(p) - 1) :
       /\ GConcat(Prefix(p, i)) /\ GRep(Suffix(p, i))
       /\ \E k \in 0..Len(s) :
            LConcat(Prefix(p, i), Prefix(s, k)) /\ LRep(Suffix(p, i), Suffix(s, k))

\* s is in the language of the pattern p: '+' is union and binds loosest
LExpr(p, s) ==
  \/ GConcat(p) /\ LConcat(p, s)
  \/ \E i \in 2..(Len(p) - 1) :
       /\ p[i] = "+" /\ GExpr(Prefix(p, i - 1)) /\ GConcat(Suffix(p, i))
       /\ (LExpr(Prefix(p, i - 1), s) \/ LConcat(Suffix(p, i), s))

RECURSIVE EpsClosure(_, _)
\* least set that contains S and is closed under the epsilon transitions
EpsClosure(m, S) ==
  LET T == S \cup UNION {m.states[st + 1].eps_transitions : st \in S} IN
  IF T = S THEN S ELSE EpsClosure(m, T)

RECURSIVE IsBlocks(_)
\* zero or more blocks, each "ab" or "c"
IsBlocks(s) ==
  \/ s = <<>>
  \/ Len(s) >= 1 /\ s[1] = "c" /\ IsBlocks(Suffix(s, 1))
  \/ Len(s) >= 2 /\ s[1] = "a" /\ s[2] = "b" /\ IsBlocks(Suffix(s, 2))

\* ((ab)+c)*(z+x)* read as a set of strings
InCompositeLanguage(s) ==
  \E k \in 0..Len(s) :
    IsBlocks(Prefix(s, k)) /\ Range(Suffix(s, k)) \subseteq {"z", "x"}

(***************************************************************************)
(* Claims.                                                                 *)
(***************************************************************************)

\* C1: for every pattern of the grammar and every query string, validate
\* returns true exactly when the string is in the regular language the
\* pattern denotes ('+' union, juxtaposition concatenation, '*' star, '+'
\* binding loosest).
C1_ValidateDecidesLanguage ==
  (pc = "done" /\ GExpr(pattern)) => (result <=> LExpr(pattern, input))

\* the malformed patterns C2 names: "(", ")", "1", "a+", and a complete
\* expression followed by a trailing ")"
C2Malformed(p) ==
  \/ p \in {<<"(">>, <<")">>, <<"1">>, <<"a", "+">>}
  \/ Len(p) >= 2 /\ Last(p) = ")" /\ GExpr(Front(p))

\* C2: compiling one of the malformed patterns ends in a parse error and
\* yields no usable engine: build reports ParsingError, the automaton stays
\* empty and no query on it is accepted.
C2_MalformedRejected ==
  C2Malformed(pattern) =>
    /\ build_result = "ParsingError"
    /\ automaton.nb_state = 0
    /\ (pc = "done" => ~result)

\* C3: the engine of "x+y" accepts the one-letter strings x and y and
\* rejects every other string.
C3_PlusIsAlternation ==
  \A x \in Letters, y \in Letters :
    (pattern = <<x, "+", y>> /\ pc = "done")
      => (result <=> input \in {<<x>>, <<y>>})

C3_Witness ==
  /\ pattern = <<"a", "+", "b">>
  /\ pc = "done"
  /\ input = <<"b">>
  /\ result

\* C4: whatever queries came before, a call validate(s) returns what
\* validate(s) returns as the first call on a freshly compiled engine for
\* the same pattern.
C4_QueriesIndependent ==
  pc = "done" =>
    \A fresh \in Vregex_new(pattern) : result <=> validate(fresh, input).ret

C4_Witness ==
  /\ pc = "done"
  /\ stale
  /\ input # <<>>
  /\ result

\* C5: parse_regex returns Ok only when the whole input is derivable from
\* expr; exhausted input, an unmatched '(', a non-letter where a literal is
\* expected and unconsumed trailing input are all errors.
C5_ParseOkOnlyIfDerivable ==
  parse_regex(pattern).ok => GExpr(pattern)

\* C6: the engine of "x*" accepts the empty string and every x^n and
\* rejects every string with another letter; the empty query is decided on
\* the epsilon closure of the entry frontier, no symbol consumed.
C6_StarOfLiteral ==
  \A x \in Letters :
    pattern = <<x, "*">> =>
      /\ pc = "done" => (result <=> Range(input) \subseteq {x})
      /\ (pc \in {"loop", "done"} /\ input = <<>>) =>
           /\ pos = 0
           /\ automaton.current_states
                = EpsClosure(automaton.machine, automaton.entry)

C6_Witness ==
  /\ pattern = <<"a", "*">>
  /\ pc = "done"
  /\ input = <<>>
  /\ result

\* C7: the engine of the one-letter pattern c accepts the string c and
\* rejects every other string, the empty string and any other letter
\* included.
C7_LiteralExact ==
  \A c \in Letters :
    (pattern = <<c>> /\ pc = "done") => (result <=> input = <<c>>)

C7_Witness ==
  /\ pattern = <<"a">>
  /\ pc = "done"
  /\ input = <<"a">>
  /\ result

\* C8: the engine of the two-letter pattern "xy" accepts exactly the
\* string "xy".
C8_ConcatExact ==
  \A x \in Letters, y \in Letters :
    (pattern = <<x, y>> /\ pc = "done") => (result <=> input = <<x, y>>)

C8_Witness ==
  /\ pattern = <<"a", "b">>
  /\ pc = "done"
  /\ input = <<"a", "b">>
  /\ result

\* C9: the engine of "((ab)+c)*(z+x)*" accepts a string exactly when it
\* is zero or more blocks "ab" or "c" followed by zero or more letters
\* 'z' or 'x'.
C9_CompositeLanguage ==
  (pattern = CompositePattern /\ pc = "done")
    => (result <=> InCompositeLanguage(input))

C9_Witness ==
  /\ pattern = CompositePattern
  /\ pc = "done"
  /\ input = <<"z", "z", "x", "x">>
  /\ result

\* the successor set of `from` a call adds to, in the graph after the call
SmSuccessors(m, call) ==
  IF call.op = "add_transition"
  THEN State_get(m.states[call.from + 1], call.v)
  ELSE m.states[call.from + 1].eps_transitions

\* C10: add_transition and add_eps_transition are all-or-nothing: an
\* invalid `from` gives InvalidStateId(from), else an invalid `to` gives
\* InvalidStateId(to), in both cases with the graph unchanged; with both
\* ids valid the call returns Ok and `to` is in the successor set of `from`.
C10_AllOrNothing ==
  [][ sm_call'.op \in {"add_transition", "add_eps_transition"} =>
        LET c == sm_call' IN
        IF ~is_valid_state_id(sm, c.from)
        THEN c.ret = InvalidStateId(c.from) /\ sm' = sm
        ELSE IF ~is_valid_state_id(sm, c.to)
        THEN c.ret = InvalidStateId(c.to) /\ sm' = sm
        ELSE c.ret = SmOk /\ c.to \in SmSuccessors(sm', c)
    ]_vars

C10_Witness ==
  /\ sm_call.op = "add_transition"
  /\ is_valid_state_id(sm, sm_call.from)
  /\ ~is_valid_state_id(sm, sm_call.to)
  /\ sm_call.ret = InvalidStateId(sm_call.to)
  /\ SmEdgeCount(sm) > 0

\* q holds no element twice
NoRepeat(q) == \A i \in 1..Len(q), j \in 1..Len(q) : q[i] = q[j] => i = j

\* C11: the epsilon closure terminates on every graph, epsilon cycles
\* included, and expands each state at most once.
C11_ClosureTerminates ==
  /\ (cl.pc = "run") ~> (cl.pc = "done")
  /\ [](cl.pc \in {"run", "done"} => NoRepeat(cl.expanded))

\* a closure that ended on a graph with two states joined by epsilon
\* transitions in both directions, both expanded
C11_Witness ==
  /\ cl.pc = "done"
  /\ \E s \in cl.reachable, t \in cl.reachable :
       /\ s # t
       /\ t \in sm.states[s + 1].eps_transitions
       /\ s \in sm.states[t + 1].eps_transitions
  /\ Len(cl.expanded) >= 2

\* the states reachable from `from` by zero or more epsilon transitions:
\* the least set of states that holds `from` and is closed under the
\* epsilon transitions
EpsReachable(m, from) ==
  LET Ids == 0..(StateMachine_nb_state(m) - 1)
      Closed == {S \in SUBSET Ids :
                   /\ from \in S
                   /\ \A st \in S : m.states[st + 1].eps_transitions \subseteq S}
  IN {t \in Ids : \A S \in Closed : t \in S}

\* C12: apply_eps_transition(start) is exactly the set of states reachable
\* from start by zero or more epsilon transitions; it holds start, and the
\* loop gives the same set whatever order the successors are pushed in.
C12_ClosureIsReachability ==
  /\ (cl.pc = "ret" /\ cl.op = "apply_eps_transition") =>
       /\ cl.from \in cl.ret
       /\ cl.ret = EpsReachable(sm, cl.from)
  /\ cl.pc = "done" =>
       /\ cl.reachable = EpsReachable(sm, cl.from)
       /\ cl.reachable = apply_eps_transition(sm, cl.from)

\* a call that returned a state two epsilon transitions away from start
\* and left out a state of the graph
C12_Witness ==
  /\ cl.pc = "ret"
  /\ cl.op = "apply_eps_transition"
  /\ \E t \in cl.ret :
       /\ t \notin apply_eps_transition_one_hop(sm, cl.from)
  /\ \E u \in 0..(StateMachine_nb_state(sm) - 1) : u \notin cl.ret

\* the targets of the v-labelled transitions of the states in S
SymbolImage(m, S, v) == UNION {State_get(m.states[st + 1], v) : st \in S}

\* C13: apply_transition(from, v) is the union of the epsilon closures of
\* the states t that some state of the epsilon closure of from has a
\* v-labelled transition to, and is empty when there is no such transition.
C13_StepIsClosedImage ==
  (cl.pc = "ret" /\ cl.op = "apply_transition") =>
    LET raw == SymbolImage(sm, EpsReachable(sm, cl.from), cl.v) IN
    /\ cl.ret = UNION {EpsReachable(sm, t) : t \in raw}
    /\ raw = {} => cl.ret = {}

\* a step whose transition leaves a state other than from and whose
\* result holds a state no v-labelled transition points to
C13_Witness ==
  /\ cl.pc = "ret"
  /\ cl.op = "apply_transition"
  /\ State_get(sm.states[cl.from + 1], cl.v) = {}
  /\ \E t \in cl.ret :
       t \notin SymbolImage(sm, EpsReachable(sm, cl.from), cl.v)

\* C14: add_state returns the number of states before the call and adds
\* exactly one state; add_n_state(n) returns the n ids that follow the
\* previous count, in increasing order, and adds exactly n states; no
\* other operation changes the number of states, and none decreases it.
C14_DenseAllocation ==
  [][ LET before == StateMachine_nb_state(sm)
          after == StateMachine_nb_state(sm')
          c == sm_call'
      IN /\ after >= before
         /\ c.op = "add_state" =>
              /\ c.ret = before
              /\ after = before + 1
         /\ c.op = "add_n_state" =>
              /\ Len(c.ret) = c.n
              /\ \A i \in 1..c.n : c.ret[i] = before + i - 1
              /\ after = before + c.n
         /\ c.op \in {"add_transition", "add_eps_transition"} =>
              after = before
    ]_vars

\* add_n_state(2) on a graph that already had a state
C14_Witness ==
  /\ sm_call.op = "add_n_state"
  /\ sm_call.n = 2
  /\ sm_call.ret = <<StateMachine_nb_state(sm) - 2,
                     StateMachine_nb_state(sm) - 1>>
  /\ sm_call.ret[1] > 0

\* the automaton build_automaton makes of reg alone
Alone(reg) == {b.a : b \in build_automaton(Automaton_new, reg)}

Shift(S, n) == {i + n : i \in S}

\* C15: when the Plus arm has built Alternate(L, R), the exit frontier is
\* the exits of L's sub-automaton together with the exits of R's, the
\* entry frontier is the one fresh state d, and d has an epsilon transition
\* to every entry state of L and of R.  The sub-automaton of an operand is
\* what build_automaton makes of it alone, at the ids it was given here.
C15_AlternateFrontiers ==
  [][ BuildAt("plus_end") =>
        \A L \in Alone(Head(tasks).reg.l), R \in Alone(Head(tasks).reg.r) :
        LET f == Head(tasks)
            n1 == f.base + L.nb_state
            d == n1 + R.nb_state
        IN /\ automaton'.exit \cap (f.base..d) =
                Shift(L.exit, f.base) \cup Shift(R.exit, n1)
           /\ automaton'.entry = {d}
           /\ (Shift(L.entry, f.base) \cup Shift(R.entry, n1))
                \subseteq automaton'.machine.states[d + 1].eps_transitions
    ]_vars

\* C16: construction never meets an out-of-range id: InternalFailure is
\* never the result of build, every pattern that parses is built with
\* result Ok, and the steps leave the automaton the whole call computes.
C16_NoInternalFailure ==
  /\ build_result # "InternalFailure"
  /\ pc \notin {"new", "build", "graph"} =>
       /\ build_result = IF parse_regex(pattern).ok THEN "Ok" ELSE "ParsingError"
       /\ [automaton EXCEPT !.current_states = {}] \in Vregex_new(pattern)

\* a built engine whose pattern has every kind of node
C16_Witness ==
  /\ pc = "idle"
  /\ build_result = "Ok"
  /\ pattern = CompositePattern
  /\ automaton.nb_state > 10

\* the ids a graph stores are ids of its states
ValidMachine(m) ==
  \A i \in 1..Len(m.states) :
    /\ m.states[i].eps_transitions \subseteq 0..(Len(m.states) - 1)
    /\ \A v \in DOMAIN m.states[i].transitions :
         m.states[i].transitions[v] \subseteq 0..(Len(m.states) - 1)

\* C17: in every reachable state, while the automaton is built and while
\* it answers queries, every id in a transition set, in the entry
\* frontier, in the exit frontier and in the active set is smaller than
\* the number of states of the graph.
C17_IdsValid ==
  /\ ValidMachine(automaton.machine)
  /\ (automaton.entry \cup automaton.exit \cup automaton.current_states)
       \subseteq 0..(Len(automaton.machine.states) - 1)
  /\ automaton.nb_state = Len(automaton.machine.states)
  /\ ValidMachine(sm)

\* a query in progress on a built engine with a star, after a symbol was
\* read into a non-empty active set
C17_Witness ==
  /\ pc = "loop"
  /\ pos > 0
  /\ automaton.current_states # {}
  /\ ast.type = "Star"

\* C18: when the pattern does not parse, new still returns an engine:
\* its automaton has no state and empty entry and exit frontiers, and
\* validate returns false for every string, the empty one included.
C18_ParseFailureRejectsAll ==
  build_result = "ParsingError" =>
    /\ pc \in {"idle", "empty", "loop", "done"}
    /\ automaton.nb_state = 0
    /\ automaton.machine.states = <<>>
    /\ automaton.entry = {}
    /\ automaton.exit = {}
    /\ automaton.current_states = {}
    /\ pc = "done" => result = FALSE

\* validate("") has returned on an engine whose pattern did not parse
C18_Witness ==
  /\ build_result = "ParsingError"
  /\ ~parse_regex(pattern).ok
  /\ pc = "done"
  /\ input = <<>>
  /\ result = FALSE

\* C19: a query changes only the active set: the number of states, the
\* transitions of every state and the entry and exit frontiers stay as
\* they are through init_for_read, read_empty, read and on_exit, and
\* init_for_read sets the active set to the entry frontier.
C19_QueryFrame ==
  [][ (pc \in {"idle", "empty", "loop", "done"}) =>
        /\ automaton'.nb_state = automaton.nb_state
        /\ automaton'.machine = automaton.machine
        /\ automaton'.entry = automaton.entry
        /\ automaton'.exit = automaton.exit
        /\ pc = "idle" => (automaton'.current_states = automaton.entry)
    ]_vars

\* a query that has started on an engine whose active set was left by an
\* earlier query with other states than the entry frontier
C19_Witness ==
  /\ pc = "loop"
  /\ pos = 0
  /\ stale
  /\ automaton.entry # {}
  /\ automaton.current_states = automaton.entry

RECURSIVE AExpr(_), AConcat(_), ARep(_), AAtom(_)

\* the tree of a pattern of the grammar: '+' binds least and groups to
\* the left, juxtaposition binds next and groups to the left, each '*'
\* wraps what is before it
AAtom(p) ==
  IF Len(p) = 1 THEN Literal(p[1]) ELSE AExpr(SubSeq(p, 2, Len(p) - 1))

ARep(p) == IF Last(p) = "*" THEN Star(ARep(Front(p))) ELSE AAtom(p)

AConcat(p) ==
  IF GRep(p) THEN ARep(p)
  ELSE LET i == CHOOSE k \in 1..(Len(p) - 1) :
                  GConcat(Prefix(p, k)) /\ GRep(Suffix(p, k))
       IN Concat(AConcat(Prefix(p, i)), ARep(Suffix(p, i)))

AExpr(p) ==
  IF GConcat(p) THEN AConcat(p)
  ELSE LET i == CHOOSE k \in 2..(Len(p) - 1) :
                  p[k] = "+" /\ GExpr(Prefix(p, k - 1)) /\ GConcat(Suffix(p, k))
       IN Plus(AExpr(Prefix(p, i - 1)), AConcat(Suffix(p, i)))

\* C20: '*' binds tightest, then concatenation, then '+'; concatenation
\* and '+' group to the left and each '*' adds one Star: the tree
\* parse_regex returns for a pattern of the grammar is the tree of that
\* reading, as for "a+bc*", "abc", "a+b+c" and "a**".
C20_Precedence ==
  pc \notin {"new", "graph", "closure"} =>
    /\ GExpr(pattern) => ast = AExpr(pattern)
    /\ pattern = <<"a", "+", "b", "c", "*">> =>
         ast = Plus(Literal("a"), Concat(Literal("b"), Star(Literal("c"))))
    /\ pattern = <<"a", "b", "c">> =>
         ast = Concat(Concat(Literal("a"), Literal("b")), Literal("c"))
    /\ pattern = <<"a", "+", "b", "+", "c">> =>
         ast = Plus(Plus(Literal("a"), Literal("b")), Literal("c"))
    /\ pattern = <<"a", "*", "*">> => ast = Star(Star(Literal("a")))

\* "a+bc*" has been parsed
C20_Witness ==
  /\ pc = "build"
  /\ pattern = <<"a", "+", "b", "c", "*">>
  /\ ast.type = "Plus"
  /\ ast.r.type = "Concat"
  /\ ast.r.r.type = "Star"

\* the active set after init_for_read and the reads of the first k symbols
\* of the input
ActiveAfter(a, s, k) == read_all(init_for_read(a), Prefix(s, k)).current_states

\* C21: within a query the empty active set is absorbing: a read (or
\* read_empty) from an empty active set leaves it empty and on_exit then
\* gives false, so validate returns false for every input that extends a
\* prefix after which the active set is empty.
C21_EmptyIsAbsorbing ==
  /\ [][ (pc \in {"empty", "loop"} /\ automaton.current_states = {}) =>
           /\ automaton'.current_states = {}
           /\ pc' = "done" => (result' = FALSE)
       ]_vars
  /\ []((pc = "done" /\ \E k \in 1..Len(input) :
                          ActiveAfter(automaton, input, k) = {})
          => result = FALSE)

\* validate has returned on an input whose first symbol emptied the active
\* set of a built engine and whose second symbol the entry frontier reads
C21_Witness ==
  /\ pc = "done"
  /\ build_result = "Ok"
  /\ Len(input) = 2
  /\ ActiveAfter(automaton, input, 1) = {}
  /\ read(init_for_read(automaton), input[2]).current_states
       \cap automaton.exit # {}
  /\ automaton.current_states = {}
  /\ result = FALSE

====
